---- MODULE Spec2Model ----
(***************************************************************************)
(* A model of the three scripts of the repository:                         *)
(*   scripts/generate_wordcloud.py  the word-cloud generator and its CLI   *)
(*   scripts/wordcloud_server.py    the Flask wrapper around the generator *)
(*   icons/create-spotify-icons.py  the icon generator                     *)
(*                                                                         *)
(* Python strings are sequences of one-character strings, so that the      *)
(* string operations of the code (strip, lstrip, startswith, in, replace,  *)
(* split, slicing, int(.., 16), b64encode) are computed, not assumed.      *)
(* Exception messages and dictionary keys are atoms.                       *)
(***************************************************************************)
EXTENDS Integers, Sequences, FiniteSets, TLC

VARIABLES
    \* create_color_func / color_func
    cf_pc,        \* "start" | "created" | "called"
    colors,       \* the list the caller passed to create_color_func
    rgb_colors,   \* the list the closure captured
    color_call,   \* the arguments of the last call of color_func
    color_ret,    \* what that call returned
    \* generate_wordcloud and the CLI main
    gen_pc,       \* "start" | "returned" | "raised" | "exited"
    gen_args,     \* the arguments of the call
    gen_run,      \* the locals of the call and its result
    \* the Flask application
    srv_pc,       \* "idle" | "received" | "responded"
    request,      \* the request being served
    response,     \* the response sent
    handled,      \* what the view function did on the way
    \* the icon generator
    icon_pc,      \* "start" | "loop" | "done"
    icon_i,       \* index into sizes of the next icon
    written,      \* the files saved so far, in order
    icon          \* the last image create_spotify_icon returned

cfVars   == <<cf_pc, colors, rgb_colors, color_call, color_ret>>
genVars  == <<gen_pc, gen_args, gen_run>>
srvVars  == <<srv_pc, request, response, handled>>
iconVars == <<icon_pc, icon_i, written, icon>>
vars     == <<cfVars, genVars, srvVars, iconVars>>

\* Python and JSON values carry their type: None, and
\* [t |-> "str" | "num" | "bool" | "list" | "dict" | "path", v |-> ...].
None == [t |-> "null"]
Str(s) == [t |-> "str", v |-> s]
Num(n) == [t |-> "num", v |-> n]
List(l) == [t |-> "list", v |-> l]
Dict(d) == [t |-> "dict", v |-> d]

\* bool(x)
Truthy(x) ==
    CASE x.t = "null" -> FALSE
      [] x.t = "str"  -> x.v # <<>>
      [] x.t = "num"  -> x.v # 0
      [] x.t = "bool" -> x.v
      [] x.t = "list" -> x.v # <<>>
      [] x.t = "dict" -> DOMAIN x.v # {}
      [] OTHER        -> TRUE

\* ------------------------------------------------------------- bounds
\* Longest palette drawn as an input.
MaxPalette == 2
\* Pixels of a rendered image (the code's width * height, scaled down).
MaxPixels == 2
\* Largest size create_spotify_icon is called with directly.
MaxIconSize == 130

\* ------------------------------------------------------------ strings
RECURSIVE LStrip(_, _)
\* str.lstrip(chars): drop every leading character that is in chars.
LStrip(s, chars) ==
    IF s # <<>> /\ Head(s) \in chars THEN LStrip(Tail(s), chars) ELSE s

RECURSIVE RStrip(_, _)
RStrip(s, chars) ==
    IF s # <<>> /\ s[Len(s)] \in chars
    THEN RStrip(SubSeq(s, 1, Len(s) - 1), chars) ELSE s

Whitespace == {" ", "\n", "\t"}

\* str.strip()
Strip(s) == RStrip(LStrip(s, Whitespace), Whitespace)

Min(a, b) == IF a < b THEN a ELSE b
Max(a, b) == IF a > b THEN a ELSE b

\* s[i:j] with Python's 0-based, end-exclusive, clamped slice.
Slice(s, i, j) == SubSeq(s, Min(i, Len(s)) + 1, Min(j, Len(s)))

\* s.startswith(p)
StartsWith(s, p) == Len(s) >= Len(p) /\ SubSeq(s, 1, Len(p)) = p

\* s.find(sub): the 0-based index of the first occurrence, -1 if none.
Find(s, sub) ==
    LET hits == {i \in 0..(Len(s) - Len(sub)) : Slice(s, i, i + Len(sub)) = sub}
    IN  IF hits = {} THEN -1 ELSE CHOOSE i \in hits : \A j \in hits : i <= j

\* sub in s
Contains(s, sub) == Find(s, sub) >= 0

RECURSIVE Replace(_, _, _)
\* s.replace(old, new) for a non-empty old: left to right, non-overlapping.
Replace(s, old, new) ==
    LET k == Find(s, old)
    IN  IF k < 0 THEN s
        ELSE Slice(s, 0, k) \o new \o Replace(Slice(s, k + Len(old), Len(s)), old, new)

RECURSIVE Split(_, _)
\* s.split(sep) for a non-empty sep: always at least one piece.
Split(s, sep) ==
    LET k == Find(s, sep)
    IN  IF k < 0 THEN <<s>>
        ELSE <<Slice(s, 0, k)>> \o Split(Slice(s, k + Len(sep), Len(s)), sep)

LowerHex == <<"0","1","2","3","4","5","6","7","8","9","a","b","c","d","e","f">>
UpperHex == <<"0","1","2","3","4","5","6","7","8","9","A","B","C","D","E","F">>

IsHexChar(c) == \E i \in 1..16 : LowerHex[i] = c \/ UpperHex[i] = c
HexVal(c) == (CHOOSE i \in 1..16 : LowerHex[i] = c \/ UpperHex[i] = c) - 1

RECURSIVE HexNum(_)
HexNum(s) == IF s = <<>> THEN 0 ELSE 16 * HexNum(SubSeq(s, 1, Len(s) - 1)) + HexVal(s[Len(s)])

ValueError(msg) == [type |-> "ValueError", msg |-> msg]
AttributeError(msg) == [type |-> "AttributeError", msg |-> msg]

\* int(s, 16) on a string of hex digits; anything else raises ValueError.
IntBase16(s) ==
    IF s # <<>> /\ \A i \in 1..Len(s) : IsHexChar(s[i])
    THEN [ok |-> TRUE, v |-> HexNum(s)]
    ELSE [ok |-> FALSE, exc |-> ValueError("invalid literal for int() with base 16")]

\* ---------------------------------------------------- colour function
hex_to_rgb(hex_color) ==
    LET h == LStrip(hex_color, {"#"})
        r == IntBase16(Slice(h, 0, 2))
        g == IntBase16(Slice(h, 2, 4))
        b == IntBase16(Slice(h, 4, 6))
    IN  IF ~r.ok THEN r
        ELSE IF ~g.ok THEN g
        ELSE IF ~b.ok THEN b
        ELSE [ok |-> TRUE, v |-> <<r.v, g.v, b.v>>]

\* The list comprehension of create_color_func: the converted palette, or the
\* first exception a conversion raises.
RgbList(cols) ==
    IF \A i \in 1..Len(cols) : hex_to_rgb(cols[i]).ok
    THEN [ok |-> TRUE, v |-> [i \in 1..Len(cols) |-> hex_to_rgb(cols[i]).v]]
    ELSE LET k == CHOOSE i \in 1..Len(cols) :
                    /\ ~hex_to_rgb(cols[i]).ok
                    /\ \A j \in 1..(i - 1) : hex_to_rgb(cols[j]).ok
         IN  hex_to_rgb(cols[k])

\* random.choice(rgb): every element can come out (IndexError on an empty list).
RandomChoiceMut(rgb) == {rgb[i] : i \in 1..Len(rgb)} \cup {<<0, 0, 0>>}
RandomChoice(rgb) == {rgb[i] : i \in 1..Len(rgb)}

S_1DB954 == <<"#","1","D","B","9","5","4">>
S_FFFFFF == <<"#","F","F","F","F","F","F">>
S_B3B3B3 == <<"#","B","3","B","3","B","3">>
S_000000 == <<"#","0","0","0","0","0","0">>
S_1db954 == <<"1","d","b","9","5","4">>
S_0a0905 == <<"#","0","a","0","9","0","5">>

\* 6-digit hex colours: with and without '#', upper and lower case.
HexColours == {S_1DB954, S_FFFFFF, S_B3B3B3, S_000000, S_1db954, S_0a0905}

SeqsUpTo(S, n) == UNION {[1..k -> S] : k \in 1..n}

Palettes == SeqsUpTo(HexColours, MaxPalette)

Words == {<<"l","a">>, <<"y","e","a","h">>}
FontSizes == {40, 300}
Orientations == {"horizontal", "vertical"}

CreateColorFunc ==
    /\ cf_pc = "start"
    /\ \E cols \in Palettes :
        /\ colors' = cols
        /\ rgb_colors' = RgbList(cols).v
    /\ cf_pc' = "created"
    /\ UNCHANGED <<color_call, color_ret>>

CallColorFunc ==
    /\ cf_pc \in {"created", "called"}
    /\ \E w \in Words, fs \in FontSizes, o \in Orientations :
         color_call' = [word |-> w, font_size |-> fs, position |-> <<0, 0>>,
                        orientation |-> o]
    /\ \E c \in RandomChoice(rgb_colors) : color_ret' = c
    /\ cf_pc' = "called"
    /\ UNCHANGED <<colors, rgb_colors>>

\* ------------------------------------------------------------ base64
B64Alphabet ==
    <<"A","B","C","D","E","F","G","H","I","J","K","L","M","N","O","P",
      "Q","R","S","T","U","V","W","X","Y","Z","a","b","c","d","e","f",
      "g","h","i","j","k","l","m","n","o","p","q","r","s","t","u","v",
      "w","x","y","z","0","1","2","3","4","5","6","7","8","9","+","/">>

B64Char(n) == B64Alphabet[n + 1]

RECURSIVE b64encode(_)
\* base64.b64encode(bytes).decode(): three bytes to four characters, '=' padding.
b64encode(bs) ==
    IF Len(bs) = 0 THEN <<>>
    ELSE IF Len(bs) = 1 THEN
        <<B64Char(bs[1] \div 4), B64Char((bs[1] % 4) * 16), "=", "=">>
    ELSE IF Len(bs) = 2 THEN
        <<B64Char(bs[1] \div 4), B64Char((bs[1] % 4) * 16 + bs[2] \div 16),
          B64Char((bs[2] % 16) * 4), "=">>
    ELSE
        <<B64Char(bs[1] \div 4), B64Char((bs[1] % 4) * 16 + bs[2] \div 16),
          B64Char((bs[2] % 16) * 4 + bs[3] \div 64), B64Char(bs[3] % 64)>>
        \o b64encode(SubSeq(bs, 4, Len(bs)))

\* The eight bytes every PNG file starts with.
PngSignature == <<137, 80, 78, 71, 13, 10, 26, 10>>

RECURSIVE Flatten(_)
Flatten(ss) == IF ss = <<>> THEN <<>> ELSE Head(ss) \o Flatten(Tail(ss))

\* image.save(buffer, format='PNG'): the signature, then the image data (here
\* the channel bytes of the pixels, uncompressed, in place of the chunks).
PngBytes(image) ==
    PngSignature \o
    Flatten([i \in 1..Len(image.px) |->
                IF image.mode = "RGBA"
                THEN image.px[i].rgb \o <<image.px[i].a>>
                ELSE image.px[i].rgb])

\* ----------------------------------------------------- the generator
S_rgba == <<"r","g","b","a">>
S_rgba_open == <<"r","g","b","a","(">>
S_0000 == <<"0",",","0",",","0",",","0">>
S_black == <<"b","l","a","c","k">>
S_white == <<"w","h","i","t","e">>
S_transparent == <<"r","g","b","a","(","0",",","0",",","0",",","0",")">>
S_half_black == <<"r","g","b","a","(","0",",","0",",","0",",","0",".","5",")">>
S_opaque_red == <<"r","g","b","a","(","2","5","5",",","0",",","0",",","1",")">>
S_wordcloud_png == <<"w","o","r","d","c","l","o","u","d",".","p","n","g">>

\* Lines 171-176: the colour handed to WordCloud and whether to mask.
Background(background_color) ==
    IF StartsWith(background_color, S_rgba) /\ Contains(background_color, S_0000)
    THEN [bg_color |-> S_black, make_transparent |-> TRUE]
    ELSE [bg_color |->
            IF Contains(background_color, S_rgba)
            THEN Split(Replace(Replace(background_color, S_rgba_open, <<>>),
                               <<")">>, <<>>), <<",">>)[1]
            ELSE background_color,
          make_transparent |-> FALSE]

\* find_system_font(): which font file exists depends on the machine; the
\* function returns a path (local or system Roboto, downloaded, or a
\* fallback) or None.
find_system_font ==
    {[t |-> "path", v |-> "fonts/Roboto-Bold.ttf"], None}

\* The palette as create_color_func iterates it: a list's elements, a
\* string's characters.
PaletteItems(cols) ==
    IF cols.t = "list" THEN cols.v ELSE [i \in 1..Len(cols.v) |-> <<cols.v[i]>>]

\* create_color_func(colors): the captured rgb_colors or the exception.
create_color_func(cols) ==
    IF cols.t \notin {"list", "str"}
    THEN [ok |-> FALSE, exc |-> [type |-> "TypeError", msg |-> "object is not iterable"]]
    ELSE RgbList(PaletteItems(cols))

\* PIL's colour parser on the names and '#rrggbb' strings used here; any
\* other string is an unknown colour specifier.
LibColour(name) ==
    IF name = S_black THEN [ok |-> TRUE, v |-> <<0, 0, 0>>]
    ELSE IF name = S_white THEN [ok |-> TRUE, v |-> <<255, 255, 255>>]
    ELSE IF Len(name) = 7 /\ name[1] = "#" /\ hex_to_rgb(name).ok THEN hex_to_rgb(name)
    ELSE [ok |-> FALSE, exc |-> ValueError("unknown color specifier")]

\* Channel values of anti-aliased pixels, sampled on both sides of the
\* masking threshold.
ChannelSamples == {9, 10}
EdgeColours == {<<r, g, b>> : r \in ChannelSamples, g \in ChannelSamples, b \in ChannelSamples}

\* One pixel of wordcloud.to_image(): background, inside a word (in the
\* colour color_func returned for that word), or on a glyph's edge.
RenderedPixels(rgb, bg) ==
    {[rgb |-> bg, kind |-> "background"]}
    \cup {[rgb |-> c, kind |-> "word"] : c \in RandomChoice(rgb)}
    \cup {[rgb |-> e, kind |-> "edge"] : e \in EdgeColours}

\* WordCloud(**params).generate(text).to_image(): an RGB image.
Rendered(rgb, bg) ==
    {[mode |-> "RGB", px |-> p] : p \in SeqsUpTo(RenderedPixels(rgb, bg), MaxPixels)}

\* Line 223: the mask of one pixel.
IsBlackMut(p) == p[1] <= 10 /\ p[2] <= 10 /\ p[3] <= 10
IsBlack(p) == p[1] < 10 /\ p[2] < 10 /\ p[3] < 10

\* Lines 220-226: the alpha channel stacked on the array, cast to uint8.
Masked(image) ==
    [mode |-> "RGBA",
     px |-> [i \in 1..Len(image.px) |->
                [rgb |-> [k \in 1..3 |-> image.px[i].rgb[k] % 256],
                 a |-> (IF IsBlack(image.px[i].rgb) THEN 0 ELSE 255) % 256,
                 kind |-> image.px[i].kind]]]

Return(v) == [kind |-> "return", v |-> v]
Raise(e) == [kind |-> "raise", exc |-> e]

\* The locals of a call that ended before rendering.
EarlyRun(res) ==
    [text |-> None, bg_color |-> None, make_transparent |-> None,
     font_path |-> None, rendered |-> None, image |-> None, saved |-> None,
     result |-> res]

\* Lines 228-240: save, then return the base64 string or None.
OutputMut(a, image) ==
    [saved |-> IF Truthy(a.output_path) THEN [path |-> a.output_path, image |-> image]
               ELSE None,
     result |-> Return(Str(b64encode(PngBytes(image))))]
Output(a, image) ==
    [saved |-> IF Truthy(a.output_path) THEN [path |-> a.output_path, image |-> image]
               ELSE None,
     result |-> IF a.return_base64
                THEN Return(Str(b64encode(PngBytes(image))))
                ELSE Return(None)]

\* The words the layout finds in the text: none in an empty text.
HasWords(text) == \E i \in 1..Len(text) : text[i] \notin Whitespace

\* generate_wordcloud(...): every way a call with arguments a can go.
generate_wordcloud(a) ==
    IF ~Truthy(a.lyrics_text) \/ ~Truthy(a.colors)
    THEN {EarlyRun(Return(None))}
    ELSE IF a.lyrics_text.t # "str"
    THEN {EarlyRun(Raise(AttributeError("object has no attribute 'strip'")))}
    ELSE
    LET text == Strip(a.lyrics_text.v)
        bg == Background(a.background_color)
        cf == create_color_func(a.colors)
        base == [EarlyRun(None) EXCEPT !.text = Str(text),
                                        !.bg_color = Str(bg.bg_color),
                                        !.make_transparent = bg.make_transparent]
    IN  IF ~cf.ok THEN {[base EXCEPT !.result = Raise(cf.exc)]}
        ELSE UNION {
            LET run == [base EXCEPT !.font_path = font]
            IN  IF ~HasWords(text)
                THEN {[run EXCEPT !.result =
                        Raise(ValueError("We need at least 1 word to plot a word cloud, got 0."))]}
                ELSE IF ~LibColour(bg.bg_color).ok
                THEN {[run EXCEPT !.result = Raise(LibColour(bg.bg_color).exc)]}
                ELSE {
                    LET image == IF bg.make_transparent THEN Masked(r) ELSE r
                        out == Output(a, image)
                    IN  [run EXCEPT !.rendered = r, !.image = image,
                                    !.saved = out.saved, !.result = out.result]
                    : r \in Rendered(cf.v, LibColour(bg.bg_color).v)}
            : font \in find_system_font}


\* The defaults of generate_wordcloud's signature and of the CLI's options.
DefaultWidth == 1920
DefaultHeight == 1080
DefaultMaxWords == 200

S_la_la == <<"l","a"," ","l","a">>
S_blank == <<" "," ">>
S_zz == <<"#","z","z","0","0","0","0">>

LyricsSamples == {Str(<<>>), Str(S_blank), Str(S_la_la)}

\* Line 277: the CLI's palette when no colours are given.
DefaultColors == List(<<S_1DB954, S_FFFFFF, S_B3B3B3, S_000000>>)

GenPalettes ==
    {List(<<>>), List(<<S_1DB954>>), List(<<S_000000, S_FFFFFF>>), List(<<S_zz>>)}

BackgroundSamples == {S_transparent, S_half_black, S_opaque_red, S_white}

OutputPaths == {None, Str(S_wordcloud_png)}

GenArgs(lyrics, cols, w, h, bg, mw, out, b64) ==
    [lyrics_text |-> lyrics, colors |-> cols, width |-> w, height |-> h,
     background_color |-> bg, max_words |-> mw, output_path |-> out,
     return_base64 |-> b64]

PcAfter(run) == IF run.result.kind = "raise" THEN "raised" ELSE "returned"

\* A direct call of generate_wordcloud.
CallGenerate ==
    /\ gen_pc = "start"
    /\ \E lyrics \in LyricsSamples, cols \in GenPalettes, bg \in BackgroundSamples,
          out \in OutputPaths, b64 \in BOOLEAN :
         LET a == GenArgs(lyrics, cols, Num(DefaultWidth), Num(DefaultHeight), bg,
                          Num(DefaultMaxWords), out, b64)
         IN  /\ gen_args' = [via |-> "call", call |-> a, stdout |-> None]
             /\ \E run \in generate_wordcloud(a) :
                  /\ gen_run' = run
                  /\ gen_pc' = PcAfter(run)

\* What --colors-json can load: a file without and with a 'colors' key.
ColorsJsonSamples ==
    {None, Dict(<<>>), Dict([colors |-> List(<<S_000000>>)])}

\* dict.get(key, default)
DictGet(d, key, default) == IF key \in DOMAIN d.v THEN d.v[key] ELSE default

\* Lines 267-278: the palette main passes on.
MainColors(cli) ==
    IF Truthy(cli.colors) THEN cli.colors
    ELSE IF cli.colors_json # None THEN DictGet(cli.colors_json, "colors", List(<<>>))
    ELSE DefaultColors

\* Lines 296-299: what main prints after the call.
MainPrints(cli, result) ==
    IF cli.base64 /\ Truthy(result) THEN result
    ELSE IF ~cli.base64 THEN [t |-> "msg", v |-> "Word cloud generated successfully!"]
    ELSE None

\* The CLI: main() with parsed arguments cli.
Main ==
    /\ gen_pc = "start"
    /\ \E lyrics \in LyricsSamples, cols \in {None, List(<<S_1DB954>>)},
          cj \in ColorsJsonSamples, bg \in BackgroundSamples, b64 \in BOOLEAN :
         LET cli == [lyrics |-> lyrics, colors |-> cols, colors_json |-> cj,
                     output |-> Str(S_wordcloud_png), width |-> Num(DefaultWidth),
                     height |-> Num(DefaultHeight), max_words |-> Num(DefaultMaxWords),
                     background |-> bg, base64 |-> b64]
             a == GenArgs(lyrics, MainColors(cli), cli.width, cli.height,
                          cli.background, cli.max_words,
                          IF ~cli.base64 THEN cli.output ELSE None, cli.base64)
         IN  IF ~Truthy(MainColors(cli))
             THEN /\ gen_pc' = "exited"
                  /\ gen_args' = [via |-> "main", call |-> None, stdout |-> None]
                  /\ gen_run' = None
             ELSE \E run \in generate_wordcloud(a) :
                  /\ gen_run' = run
                  /\ gen_pc' = PcAfter(run)
                  /\ gen_args' =
                       [via |-> "main", call |-> a,
                        stdout |-> IF run.result.kind = "return"
                                   THEN MainPrints(cli, run.result.v) ELSE None]


\* ------------------------------------------------------- the server
\* The @app.route decorators: the application's whole URL map.
RoutesMut ==
    {[rule |-> "/api/wordcloud", methods |-> {"GET", "POST"}, view |-> "create_wordcloud"],
     [rule |-> "/health", methods |-> {"GET"}, view |-> "health"]}
Routes ==
    {[rule |-> "/api/wordcloud", methods |-> {"POST"}, view |-> "create_wordcloud"],
     [rule |-> "/health", methods |-> {"GET"}, view |-> "health"]}

\* The methods a rule answers with its view: Flask adds HEAD to a rule that
\* has GET.
ViewMethods(r) == r.methods \cup (IF "GET" \in r.methods THEN {"HEAD"} ELSE {})

Paths == {"/api/wordcloud", "/health", "/"}
Methods == {"GET", "POST", "HEAD", "OPTIONS", "PUT"}

Missing == [t |-> "missing"]

\* A JSON object with the keys that are not Missing.
MkDict(l, c, w) ==
    LET given == [lyrics |-> l, colors |-> c, width |-> w]
        keys == {k \in DOMAIN given : given[k] # Missing}
    IN  Dict([k \in keys |-> given[k]])

LyricsValues == {Missing, Str(<<>>), Str(S_blank), Str(S_la_la), Num(5)}
ColorsValues ==
    {Missing, List(<<>>), List(<<S_1DB954>>), List(<<S_000000, S_FFFFFF>>),
     List(<<S_zz>>), Str(S_1DB954)}
WidthValues == {Missing, Num(800)}

JsonValues ==
    {None, List(<<>>), Num(0), List(<<Num(1)>>), Num(5)}
    \cup {MkDict(l, c, w) : l \in LyricsValues, c \in ColorsValues, w \in WidthValues}

\* A request body: none at all, bytes that are not JSON, or a JSON value.
Bodies ==
    {[kind |-> "absent"], [kind |-> "malformed"]}
    \cup {[kind |-> "json", v |-> j] : j \in JsonValues}

\* request.get_json(): the parsed value, or the HTTP exception the framework
\* raises when the body is not JSON. Without a body the framework returns
\* None or raises, depending on its version.
get_json(body) ==
    CASE body.kind = "json" -> {[ok |-> TRUE, v |-> body.v]}
      [] body.kind = "malformed" ->
            {[ok |-> FALSE, exc |-> [type |-> "BadRequest", msg |-> "400 Bad Request"]]}
      [] OTHER ->
            {[ok |-> TRUE, v |-> None],
             [ok |-> FALSE, exc |-> [type |-> "UnsupportedMediaType",
                                     msg |-> "415 Unsupported Media Type"]]}

S_data_url ==
    <<"d","a","t","a",":","i","m","a","g","e","/","p","n","g",";",
      "b","a","s","e","6","4",",">>

AppResponse(view, json, status) ==
    [by |-> "app", view |-> view, status |-> status, json |-> json]

\* Lines 54-57.
OkResponseMut(image_base64) ==
    AppResponse("create_wordcloud",
                [success |-> TRUE, image |-> image_base64.v], 200)
OkResponse(image_base64) ==
    AppResponse("create_wordcloud",
                [success |-> TRUE, image |-> S_data_url \o image_base64.v], 200)

ErrorResponse(msg, status) ==
    AppResponse("create_wordcloud", [error |-> msg], status)

\* What the view did: the exception it caught, whether it called the
\* generator and what the generator returned.
Handled(parsed, exc, called, result) ==
    [view |-> "create_wordcloud", parsed |-> parsed, exc |-> exc,
     gen_called |-> called, gen_result |-> result]

\* Lines 59-63: str(e) in a 500.
ExceptMut(e) == ErrorResponse(e.msg, 400)
Except(e) == ErrorResponse(e.msg, 500)

\* Lines 35-39: the checks on the fields, in the code's order.
ValidateMut(lyrics, cols) ==
    IF ~Truthy(cols) THEN "Colors array is required"
    ELSE IF ~Truthy(lyrics) THEN "Lyrics text is required"
    ELSE "ok"
Validate(lyrics, cols) ==
    IF ~Truthy(lyrics) THEN "Lyrics text is required"
    ELSE IF ~Truthy(cols) THEN "Colors array is required"
    ELSE "ok"

\* create_wordcloud(): every way the view can go for a body.
create_wordcloud(body) ==
    UNION {
        IF ~j.ok
        THEN {[response |-> Except(j.exc), handled |-> Handled(None, j.exc, FALSE, None)]}
        ELSE IF ~Truthy(j.v)
        THEN {[response |-> ErrorResponse("No data provided", 400),
               handled |-> Handled(j.v, None, FALSE, None)]}
        ELSE IF j.v.t # "dict"
        THEN LET e == AttributeError("object has no attribute 'get'")
             IN  {[response |-> Except(e), handled |-> Handled(j.v, e, FALSE, None)]}
        ELSE
        LET data == j.v
            lyrics == DictGet(data, "lyrics", Str(<<>>))
            cols == DictGet(data, "colors", List(<<>>))
            width == DictGet(data, "width", Num(DefaultWidth))
            height == DictGet(data, "height", Num(DefaultHeight))
            max_words == DictGet(data, "max_words", Num(DefaultMaxWords))
        IN  IF Validate(lyrics, cols) # "ok"
            THEN {[response |-> ErrorResponse(Validate(lyrics, cols), 400),
                   handled |-> Handled(data, None, FALSE, None)]}
            ELSE {
                IF run.result.kind = "raise"
                THEN [response |-> Except(run.result.exc),
                      handled |-> Handled(data, run.result.exc, TRUE, run.result)]
                ELSE IF ~Truthy(run.result.v)
                THEN [response |-> ErrorResponse("Failed to generate word cloud", 500),
                      handled |-> Handled(data, None, TRUE, run.result)]
                ELSE [response |-> OkResponse(run.result.v),
                      handled |-> Handled(data, None, TRUE, run.result)]
                : run \in generate_wordcloud(
                            GenArgs(lyrics, cols, width, height, S_transparent,
                                    max_words, None, TRUE))}
        : j \in get_json(body)}

\* health()
health ==
    [response |-> AppResponse("health", [status |-> "ok", service |-> "wordcloud"], 200),
     handled |-> [view |-> "health", parsed |-> None, exc |-> None,
                  gen_called |-> FALSE, gen_result |-> None]]

FrameworkResponse(status) ==
    [response |-> [by |-> "framework", view |-> "", status |-> status, json |-> <<>>],
     handled |-> None]

\* The framework's dispatch of a request over the URL map: the view of the
\* rule that matches path and method, else its own 404, 405 or OPTIONS reply.
Dispatch(req) ==
    LET matching == {r \in Routes : r.rule = req.path}
        hit == {r \in matching : req.method \in ViewMethods(r)}
    IN  IF matching = {} THEN {FrameworkResponse(404)}
        ELSE IF hit = {}
        THEN {FrameworkResponse(IF req.method = "OPTIONS" THEN 200 ELSE 405)}
        ELSE UNION {IF r.view = "health" THEN {health} ELSE create_wordcloud(req.body)
                    : r \in hit}

\* A request arrives.
Receive ==
    /\ srv_pc = "idle"
    /\ \E p \in Paths, m \in Methods, b \in Bodies :
         request' = [path |-> p, method |-> m, body |-> b]
    /\ srv_pc' = "received"
    /\ UNCHANGED <<response, handled>>

\* The request is routed, its view runs and the response is sent.
Serve ==
    /\ srv_pc = "received"
    /\ \E out \in Dispatch(request) :
         /\ response' = out.response
         /\ handled' = out.handled
    /\ srv_pc' = "responded"
    /\ UNCHANGED request

\* The server is ready for the next request; nothing is kept of the last.
NextRequest ==
    /\ srv_pc = "responded"
    /\ srv_pc' = "idle"
    /\ request' = None
    /\ response' = None
    /\ handled' = None


\* ------------------------------------------------ the icon generator
SPOTIFY_GREEN == S_1DB954
SPOTIFY_WHITE == S_FFFFFF

\* Lengths are in thousandths of a pixel, so that the code's decimal factors
\* (0.4, 0.3, 0.15, ...) are exact.
Px(n) == 1000 * n
Times(x, thousandths) == (x * thousandths) \div 1000

\* Lines 45-67: the note of the small icons.
NoteShapes(size, center_x, center_y, line_width) ==
    LET note_size == Times(Px(size), 400)
    IN  <<[op |-> "ellipse", fill |-> SPOTIFY_WHITE,
           box |-> <<center_x - Times(note_size, 300), center_y - Times(note_size, 150),
                     center_x + Times(note_size, 300), center_y + Times(note_size, 150)>>],
          [op |-> "rectangle", fill |-> SPOTIFY_WHITE,
           box |-> <<center_x + Times(note_size, 200), center_y - Times(note_size, 150),
                     center_x + Times(note_size, 200) + Px(line_width),
                     center_y + Times(note_size, 400)>>]>>

\* Lines 70-113: the three arcs of the larger icons.
ArcShapes(size, center_x, center_y, line_width) ==
    LET spacing == Times(Px(size), 120)
        line_height == Times(Px(size), 150)
        Arc(x0, y0, x1, y1) ==
            [op |-> "arc", fill |-> SPOTIFY_WHITE, box |-> <<x0, y0, x1, y1>>,
             start |-> 0, end |-> 180, width |-> line_width]
    IN  <<Arc(center_x - Times(spacing, 1500), center_y - spacing - Times(line_height, 500),
              center_x - Times(spacing, 500), center_y - spacing + Times(line_height, 500)),
          Arc(center_x - Times(spacing, 500), center_y - Times(line_height, 500),
              center_x + Times(spacing, 500), center_y + Times(line_height, 500)),
          Arc(center_x + Times(spacing, 500), center_y + spacing - Times(line_height, 500),
              center_x + Times(spacing, 1500), center_y + spacing + Times(line_height, 500))>>

\* Line 43: the small icons get the note.
SmallIconMut(size) == size < 16
SmallIcon(size) == size <= 16

\* create_spotify_icon(size): the image and what was drawn on it, in order.
create_spotify_icon(size) ==
    LET margin == Max(1, size \div 32)
        center_x == Px(size) \div 2
        center_y == Px(size) \div 2
        line_width == Max(2, size \div 16)
    IN  [mode |-> "RGBA", width |-> size, height |-> size,
         shapes |->
            <<[op |-> "ellipse", fill |-> SPOTIFY_GREEN,
               box |-> <<Px(margin), Px(margin), Px(size - margin), Px(size - margin)>>]>>
            \o (IF SmallIcon(size)
                THEN NoteShapes(size, center_x, center_y, line_width)
                ELSE ArcShapes(size, center_x, center_y, line_width))]

\* Line 118.
sizes == <<16, 48, 128>>

Digits == <<"0","1","2","3","4","5","6","7","8","9">>

RECURSIVE DecStr(_)
\* str(n) for n >= 0
DecStr(n) == IF n < 10 THEN <<Digits[n + 1]>> ELSE DecStr(n \div 10) \o <<Digits[(n % 10) + 1]>>

S_icon == <<"i","c","o","n">>
S_dot_png == <<".","p","n","g">>

\* Line 125: f"icon{size}.png" in the script's directory.
IconFile(size) == [dir |-> "script_dir", name |-> S_icon \o DecStr(size) \o S_dot_png]

\* main() starts.
IconMainStart ==
    /\ icon_pc = "start"
    /\ icon_pc' = "loop"
    /\ icon_i' = 1
    /\ UNCHANGED <<written, icon>>

\* One turn of the loop: draw the icon, save it.
IconSave ==
    /\ icon_pc = "loop"
    /\ icon_i <= Len(sizes)
    /\ icon' = [arg |-> sizes[icon_i], img |-> create_spotify_icon(sizes[icon_i])]
    /\ written' = Append(written, [file |-> IconFile(sizes[icon_i]),
                                   image |-> create_spotify_icon(sizes[icon_i])])
    /\ icon_i' = icon_i + 1
    /\ UNCHANGED icon_pc

\* The loop is over.
IconMainEnd ==
    /\ icon_pc = "loop"
    /\ icon_i > Len(sizes)
    /\ icon_pc' = "done"
    /\ UNCHANGED <<icon_i, written, icon>>

\* create_spotify_icon called on its own with any size.
CallCreateIcon ==
    /\ icon_pc = "start"
    /\ \E size \in 1..MaxIconSize :
         icon' = [arg |-> size, img |-> create_spotify_icon(size)]
    /\ icon_pc' = "called"
    /\ UNCHANGED <<icon_i, written>>


InitColor ==
    /\ cf_pc = "start"
    /\ colors = <<>>
    /\ rgb_colors = <<>>
    /\ color_call = None
    /\ color_ret = None

InitGen == gen_pc = "start" /\ gen_args = None /\ gen_run = None
InitServer == srv_pc = "idle" /\ request = None /\ response = None /\ handled = None
InitIcon == icon_pc = "start" /\ icon_i = 0 /\ written = <<>> /\ icon = None

Init == InitColor /\ InitGen /\ InitServer /\ InitIcon

NextColor ==
    \/ CreateColorFunc /\ UNCHANGED <<genVars, srvVars, iconVars>>
    \/ CallColorFunc /\ UNCHANGED <<genVars, srvVars, iconVars>>

NextGen ==
    \/ CallGenerate /\ UNCHANGED <<cfVars, srvVars, iconVars>>
    \/ Main /\ UNCHANGED <<cfVars, srvVars, iconVars>>

SpecGen == Init /\ [][NextGen]_vars

NextServer ==
    \/ Receive /\ UNCHANGED <<cfVars, genVars, iconVars>>
    \/ Serve /\ UNCHANGED <<cfVars, genVars, iconVars>>
    \/ NextRequest /\ UNCHANGED <<cfVars, genVars, iconVars>>

SpecServer == Init /\ [][NextServer]_vars

NextIcon ==
    \/ IconMainStart /\ UNCHANGED <<cfVars, genVars, srvVars>>
    \/ IconSave /\ UNCHANGED <<cfVars, genVars, srvVars>>
    \/ IconMainEnd /\ UNCHANGED <<cfVars, genVars, srvVars>>
    \/ CallCreateIcon /\ UNCHANGED <<cfVars, genVars, srvVars>>

SpecIcon == Init /\ [][NextIcon]_vars

SpecColor == Init /\ [][NextColor]_vars

\* C5: every call of the colour function returns hex_to_rgb(c) for some c of
\* the palette it was created from, whatever its arguments, and leaves the
\* palette as it was passed.
C5_ColorFromPalette ==
    [][ (cf_pc' = "called") =>
            ( /\ colors' = colors
              /\ colors \in Palettes
              /\ \E i \in 1..Len(colors) :
                    color_ret' = hex_to_rgb(colors[i]).v ) ]_vars

C5_Witness ==
    /\ cf_pc = "called"
    /\ Len(colors) = 2
    /\ colors[2] = S_1db954
    /\ color_ret = <<29, 185, 84>>
    /\ color_call.orientation = "vertical"

\* ------------------------------------------------------------ base64
B64Val(c) == (CHOOSE i \in 1..64 : B64Alphabet[i] = c) - 1

RECURSIVE b64decode(_)
\* The bytes a padded base64 string stands for.
b64decode(cs) ==
    IF Len(cs) < 4 THEN <<>>
    ELSE LET n == [k \in 1..4 |-> IF cs[k] = "=" THEN 0 ELSE B64Val(cs[k])]
             b1 == n[1] * 4 + n[2] \div 16
             b2 == (n[2] % 16) * 16 + n[3] \div 4
             b3 == (n[3] % 4) * 64 + n[4]
         IN  (IF cs[3] = "=" THEN <<b1>>
              ELSE IF cs[4] = "=" THEN <<b1, b2>>
              ELSE <<b1, b2, b3>>)
             \o b64decode(SubSeq(cs, 5, Len(cs)))

IsPng(bytes) == Len(bytes) > 8 /\ SubSeq(bytes, 1, 8) = PngSignature

IsBase64Png(x) ==
    /\ x.t = "str"
    /\ Len(x.v) > 0
    /\ \A i \in 1..Len(x.v) : x.v[i] = "=" \/ \E k \in 1..64 : B64Alphabet[k] = x.v[i]
    /\ IsPng(b64decode(x.v))

\* --------------------------------------------------------- generator
GenCalled == gen_pc \in {"returned", "raised"}

EmptyInput == ~Truthy(gen_args.call.lyrics_text) \/ ~Truthy(gen_args.call.colors)

MaskingApplied ==
    /\ GenCalled
    /\ gen_run.image # None
    /\ gen_run.make_transparent

\* C6: where the masking is applied, every pixel's alpha is 0 if and only if
\* its red, green and blue are all below 10 and 255 otherwise, and its red,
\* green and blue are those of the rendered image.
C6_Masking ==
    MaskingApplied =>
        /\ gen_run.image.mode = "RGBA"
        /\ Len(gen_run.image.px) = Len(gen_run.rendered.px)
        /\ \A i \in 1..Len(gen_run.image.px) :
            LET before == gen_run.rendered.px[i].rgb
                after == gen_run.image.px[i]
            IN  /\ after.rgb = before
                /\ after.a \in {0, 255}
                /\ after.a = 0 <=> (before[1] < 10 /\ before[2] < 10 /\ before[3] < 10)

C6_Witness ==
    /\ MaskingApplied
    /\ Len(gen_run.image.px) = 2
    /\ gen_run.image.px[1].rgb = <<9, 9, 9>>
    /\ gen_run.image.px[1].a = 0
    /\ gen_run.image.px[2].rgb = <<9, 10, 9>>
    /\ gen_run.image.px[2].a = 255

\* C8 as claimed: after the masking every pixel of a rendered word is opaque,
\* whichever palette colour it has.
C8_WordsOpaque ==
    MaskingApplied =>
        \A i \in 1..Len(gen_run.image.px) :
            gen_run.image.px[i].kind = "word" => gen_run.image.px[i].a = 255

\* C10 as claimed: the background is made transparent exactly for
\* rgba(0,0,0,0), rendered on black and masked; any other background colour
\* is handed to the layout as it was requested and nothing is masked (stated
\* of the calls that rendered an image).
C10_TransparentExactly ==
    (GenCalled /\ gen_run.image # None) =>
        /\ gen_run.make_transparent <=> gen_args.call.background_color = S_transparent
        /\ gen_run.make_transparent => gen_run.bg_color = Str(S_black)
        /\ ~gen_run.make_transparent =>
                gen_run.bg_color = Str(gen_args.call.background_color)
        /\ gen_run.image.mode = "RGBA" <=> gen_run.make_transparent

\* ------------------------------------------------------------ server
ViewRan(v) ==
    /\ srv_pc = "responded"
    /\ response.by = "app"
    /\ response.view = v

\* C1: every response of the POST /api/wordcloud view is a JSON object with
\* either 'image' (with 'success' true and status 200, the data-URL prefix
\* followed by the non-empty base64 string the generator returned) or 'error'
\* (status 400 or 500), never both and never neither.
C1_ImageOrError ==
    ViewRan("create_wordcloud") =>
        LET keys == DOMAIN response.json
        IN  /\ ("image" \in keys) # ("error" \in keys)
            /\ "image" \in keys =>
                /\ keys = {"success", "image"}
                /\ response.json.success = TRUE
                /\ response.status = 200
                /\ handled.gen_called
                /\ handled.gen_result.kind = "return"
                /\ IsBase64Png(handled.gen_result.v)
                /\ response.json.image = S_data_url \o handled.gen_result.v.v
                /\ Len(response.json.image) > Len(S_data_url)
            /\ "error" \in keys =>
                /\ keys = {"error"}
                /\ response.status \in {400, 500}

C1_Witness ==
    /\ ViewRan("create_wordcloud")
    /\ response.status = 200
    /\ "image" \in DOMAIN response.json
    /\ StartsWith(response.json.image, S_data_url)
    /\ request.body.v = MkDict(Str(S_la_la), List(<<S_1DB954>>), Num(800))

\* The view was chosen for the request.
Routed == srv_pc = "responded" /\ request.path = "/api/wordcloud" /\ request.method = "POST"

\* C2: an exception raised while the view runs (parsing the body, reading
\* its fields, generating) becomes a 500 whose 'error' is the exception's
\* message, the view always answers itself, and a falsy result of the
\* generator is a 500 too.
C2_ExceptionsAre500 ==
    Routed =>
        /\ ViewRan("create_wordcloud")
        /\ handled.exc # None =>
                response.status = 500 /\ response.json = [error |-> handled.exc.msg]
        /\ request.body.kind = "malformed" => handled.exc # None
        /\ (request.body.kind = "json" /\ Truthy(request.body.v)
                /\ request.body.v.t # "dict") => handled.exc # None
        /\ (handled.gen_called /\ handled.gen_result.kind = "raise") =>
                handled.exc = handled.gen_result.exc
        /\ (handled.gen_called /\ handled.gen_result.kind = "return"
                /\ ~Truthy(handled.gen_result.v)) =>
                response.status = 500 /\ DOMAIN response.json = {"error"}

C2_Witness ==
    /\ Routed
    /\ handled.gen_called
    /\ handled.gen_result.kind = "raise"
    /\ handled.exc.type = "ValueError"
    /\ response.status = 500
    /\ response.json.error = "We need at least 1 word to plot a word cloud, got 0."

\* C3 as claimed: application code answers POST /api/wordcloud and nothing
\* else.
C3_Original ==
    (srv_pc = "responded" /\ response.by = "app") =>
        request.path = "/api/wordcloud" /\ request.method = "POST"

\* C3: the application has two routes. Its code answers POST /api/wordcloud
\* (create_wordcloud) and GET /health (health, which the framework also runs
\* for HEAD); every other path or method is answered by the framework alone.
C3_TwoRoutes ==
    srv_pc = "responded" =>
        /\ response.by = "app" <=>
            \/ request.path = "/api/wordcloud" /\ request.method = "POST"
            \/ request.path = "/health" /\ request.method \in {"GET", "HEAD"}
        /\ response.by = "app" =>
            response.view = (IF request.path = "/health" THEN "health"
                             ELSE "create_wordcloud")
        /\ response.by # "app" => handled = None /\ response.status \in {200, 404, 405}

C3_Witness ==
    /\ srv_pc = "responded"
    /\ request.path = "/health"
    /\ request.method = "GET"
    /\ response.by = "app"
    /\ response.view = "health"
    /\ response.json = [status |-> "ok", service |-> "wordcloud"]

\* A field the body does not have, or has with an empty value.
MissingOrEmpty(body, key) ==
    \/ body.kind # "json"
    \/ body.v.t # "dict"
    \/ key \notin DOMAIN body.v.v
    \/ ~Truthy(body.v.v[key])

BodyMissingOrEmpty(body) == body.kind = "absent" \/ (body.kind = "json" /\ ~Truthy(body.v))

Is400(msg) == response.status = 400 /\ response.json = [error |-> msg]

\* C9 as claimed, for the bodies the framework parses (to a JSON value, or to
\* None when there is none): a missing or empty body gets 400 'No data provided',
\* otherwise missing or empty lyrics get 400 'Lyrics text is required',
\* otherwise missing or empty colours get 400 'Colors array is required', and
\* a request that gets a 400 never reaches the generator.
C9_Original ==
    (Routed /\ (request.body.kind = "json" \/ handled.exc = None)) =>
        /\ IF BodyMissingOrEmpty(request.body) THEN Is400("No data provided")
           ELSE IF MissingOrEmpty(request.body, "lyrics") THEN Is400("Lyrics text is required")
           ELSE IF MissingOrEmpty(request.body, "colors") THEN Is400("Colors array is required")
           ELSE response.status # 400
        /\ response.status = 400 => ~handled.gen_called

\* C9: when the body parses to a falsy value (null, 0, {}, []) the view answers
\* 400 'No data provided'; otherwise, when it parses to a JSON object, missing
\* or empty lyrics get 400 'Lyrics text is required', otherwise missing or
\* empty colours get 400 'Colors array is required'; the checks are made in
\* that order and the generator is called for no request that gets a 400, nor
\* for one the view could not parse or that is not an object (those get 500).
C9_ValidationOrder ==
    Routed =>
        /\ (handled.exc = None /\ ~Truthy(handled.parsed)) <=> Is400("No data provided")
        /\ (request.body.kind = "json" /\ ~Truthy(request.body.v)) => Is400("No data provided")
        /\ (request.body.kind = "json" /\ request.body.v.t = "dict"
                /\ Truthy(request.body.v)) =>
             IF MissingOrEmpty(request.body, "lyrics") THEN Is400("Lyrics text is required")
             ELSE IF MissingOrEmpty(request.body, "colors") THEN Is400("Colors array is required")
             ELSE response.status # 400 /\ handled.gen_called
        /\ response.status = 400 => ~handled.gen_called
        /\ (request.body.kind = "malformed"
                \/ (request.body.kind = "json" /\ Truthy(request.body.v)
                        /\ request.body.v.t # "dict")) =>
             response.status = 500 /\ ~handled.gen_called

C9_Witness ==
    /\ Routed
    /\ request.body.kind = "json"
    /\ request.body.v = MkDict(Missing, Missing, Num(800))
    /\ Is400("Lyrics text is required")
    /\ ~handled.gen_called

\* -------------------------------------------------------------- icons
S_icon16 == <<"i","c","o","n","1","6",".","p","n","g">>
S_icon48 == <<"i","c","o","n","4","8",".","p","n","g">>
S_icon128 == <<"i","c","o","n","1","2","8",".","p","n","g">>

Ops(img) == [i \in 1..Len(img.shapes) |-> img.shapes[i].op]

\* C7: main saves icon16.png, icon48.png and icon128.png, in that order and
\* nothing else, in the script's directory, each a square of the size in its
\* name; an icon is the green disc with the note for a size up to 16 and with
\* the three arcs for a larger one.
C7_ThreeIcons ==
    /\ Len(written) <= 3
    /\ \A i \in 1..Len(written) :
        /\ written[i].file.dir = "script_dir"
        /\ written[i].file.name = <<S_icon16, S_icon48, S_icon128>>[i]
        /\ written[i].image.width = <<16, 48, 128>>[i]
        /\ written[i].image.height = <<16, 48, 128>>[i]
    /\ icon_pc = "done" => Len(written) = 3
    /\ icon # None =>
        /\ icon.img.width = icon.arg
        /\ icon.img.height = icon.arg
        /\ icon.img.mode = "RGBA"
        /\ Ops(icon.img) = (IF icon.arg <= 16 THEN <<"ellipse", "ellipse", "rectangle">>
                            ELSE <<"ellipse", "arc", "arc", "arc">>)
        /\ icon.img.shapes[1].fill = S_1DB954
        /\ \A k \in 2..Len(icon.img.shapes) : icon.img.shapes[k].fill = S_FFFFFF

C7_Witness ==
    /\ icon_pc = "done"
    /\ Len(written) = 3
    /\ written[3].file.name = S_icon128
    /\ written[1].image.shapes[3].op = "rectangle"
    /\ written[1].image.shapes[3].box = <<9280, 7040, 11280, 10560>>
====
